---- MODULE Spec2Model ----
(***************************************************************************)
(* A model of the rust-jsonrpc2 client endpoint (src/src/client/mod.rs):   *)
(* the caller thread that issues send_request / send_request_sync /        *)
(* send_notification, the "ClientEndpoint writer" thread that drains the   *)
(* outbound channel into the transport, and the transport's delivery       *)
(* thread that calls payload_received.  The three threads share the        *)
(* handlers table, which is guarded by one mutex.                          *)
(*                                                                         *)
(* SpecServer is the server side (src/src/server): the reader thread of    *)
(* ServerStreamTransport and the Responder it calls for every line.        *)
(* SpecCodec is the codec of src/src/message.rs, and the error conversion   *)
(* of src/src/transport/mod.rs, taken alone: one value is chosen and one    *)
(* operation is applied to it.                                             *)
(* SpecWriter is the caller and the writer thread of the client under a    *)
(* fairly scheduled writer.  SpecLineReader is the reader thread of        *)
(* ClientStreamTransport (src/src/client/stream.rs) and SpecHttp is        *)
(* HTTPClientTransport (src/src/http/client.rs) with its Requestor threads. *)
(***************************************************************************)
EXTENDS Integers, Sequences, FiniteSets, TLC

(* ---------------------------- bounds ----------------------------------- *)
\* number of API calls the caller thread issues
MaxOps == 2
\* number of inbound payloads the transport reports
MaxDeliveries == 2
\* the timeout handed to send_request_sync, in clock ticks
MaxTimeout == 1
\* number of results the server's reader gets from lines.next()
MaxFrames == 2
\* the integers in the values given to the codec are -MaxInt..MaxInt
MaxInt == 1
\* number of results the client's reader gets from lines.next()
MaxLines == 2
\* number of calls of send on the HTTP client transport
MaxSends == 2

(* --------------------------- Option / Result --------------------------- *)
None == [some |-> FALSE]
Some(x) == [some |-> TRUE, v |-> x]
Ok(x) == [ok |-> TRUE, v |-> x]
Err(e) == [ok |-> FALSE, e |-> e]

(* ------------------------ serde_json::Value ---------------------------- *)
JNull == [t |-> "null"]
JNum(n) == [t |-> "num", n |-> n]
JStr(s) == [t |-> "str", s |-> s]
JArr(a) == [t |-> "arr", a |-> a]
JObj(o) == [t |-> "obj", o |-> o]
JBool(b) == [t |-> "bool", b |-> b]

\* the object o with key k set to v (ObjectBuilder::insert / BTreeMap::insert)
Insert(o, k, v) == [x \in (DOMAIN o) \cup {k} |-> IF x = k THEN v ELSE o[x]]
EmptyMap == [x \in {} |-> JNull]
\* BTreeMap::get
Get(o, k) == IF k \in DOMAIN o THEN Some(o[k]) ELSE None

\* Value::as_u64: only a non-negative integer is representable
as_u64(v) == IF v.t = "num" /\ v.n >= 0 THEN Some(v.n) ELSE None
\* Value::as_i64
as_i64(v) == IF v.t = "num" THEN Some(v.n) ELSE None
\* Value::as_string
as_string(v) == IF v.t = "str" THEN Some(v.s) ELSE None

\* serde_json::to_string: the text of a JSON value
to_string(v) == [wf |-> TRUE, v |-> v]
\* a line that is not JSON
Garbage == [wf |-> FALSE]
\* serde_json::from_str
from_str(text) == IF text.wf THEN Some(text.v) ELSE None

(* ----------------------------- message.rs ------------------------------ *)
\* Error::new
Error_new(code, message, data) == [code |-> code, message |-> message, data |-> data]
\* the standard errors
method_not_found == Error_new(-32601, "Method not found", None)
\* a variant with the code and message of Error::internal_error
parse_error_internal == Error_new(-32603, "Internal error", None)
parse_error == Error_new(-32700, "Parse error", None)
invalid_request == Error_new(-32600, "Invalid request", None)

\* Params is Named(map) or Positional(vec)
Named(map) == [named |-> TRUE, map |-> map]
Positional(vec) == [named |-> FALSE, vec |-> vec]

Params_to_json(p) == IF p.named THEN JObj(p.map) ELSE JArr(p.vec)

\* a variant that takes null for an empty list of parameters
Params_from_json_null(json) ==
    IF json.t = "obj" THEN Ok(Named(json.o))
    ELSE IF json.t \in {"arr", "null"} THEN Ok(Positional(IF json.t = "arr" THEN json.a ELSE <<>>))
    ELSE Err(invalid_request)

Params_from_json(json) ==
    IF json.t = "obj" THEN Ok(Named(json.o))
    ELSE IF json.t = "arr" THEN Ok(Positional(json.a))
    ELSE Err(invalid_request)

Request_new(method, params) == [method |-> method, params |-> params, id |-> None]

set_id(msg, id) == [msg EXCEPT !.id = Some(id)]

\* a variant that writes a null id for a request without id
Request_to_json_null_id(r) ==
    LET b0 == Insert(Insert(EmptyMap, "jsonrpc", JStr("2.0")), "method", JStr(r.method))
        b1 == IF r.params.some THEN Insert(b0, "params", Params_to_json(r.params.v)) ELSE b0
    IN  JObj(Insert(b1, "id", IF r.id.some THEN r.id.v ELSE JNull))

Request_to_json(r) ==
    LET b0 == Insert(Insert(EmptyMap, "jsonrpc", JStr("2.0")), "method", JStr(r.method))
        b1 == IF r.params.some THEN Insert(b0, "params", Params_to_json(r.params.v)) ELSE b0
        b2 == IF r.id.some THEN Insert(b1, "id", r.id.v) ELSE b1
    IN  JObj(b2)

\* a variant that takes a null id for no id
Request_from_json_null_id(json) ==
    IF json.t # "obj" THEN Err(invalid_request)
    ELSE LET map == json.o
             m == Get(map, "method")
             p == Get(map, "params")
         IN  IF ~m.some THEN Err(invalid_request)
             ELSE IF ~as_string(m.v).some THEN Err(invalid_request)
             ELSE IF p.some /\ ~Params_from_json(p.v).ok THEN Err(Params_from_json(p.v).e)
             ELSE Ok([method |-> as_string(m.v).v,
                      params |-> IF p.some THEN Some(Params_from_json(p.v).v) ELSE None,
                      id |-> IF Get(map, "id") = Some(JNull) THEN None ELSE Get(map, "id")])

Request_from_json(json) ==
    IF json.t # "obj" THEN Err(invalid_request)
    ELSE LET map == json.o
             m == Get(map, "method")
             p == Get(map, "params")
         IN  IF ~m.some THEN Err(invalid_request)
             ELSE IF ~as_string(m.v).some THEN Err(invalid_request)
             ELSE IF p.some /\ ~Params_from_json(p.v).ok THEN Err(Params_from_json(p.v).e)
             ELSE Ok([method |-> as_string(m.v).v,
                      params |-> IF p.some THEN Some(Params_from_json(p.v).v) ELSE None,
                      id |-> Get(map, "id")])

Error_to_json(e) ==
    LET b0 == Insert(Insert(EmptyMap, "code", JNum(e.code)), "message", JStr(e.message))
        b1 == IF e.data.some THEN Insert(b0, "data", e.data.v) ELSE b0
    IN  JObj(b1)

\* Error::from_json.  The code field is read from the key "id".
Error_from_json(json) ==
    IF json.t # "obj" THEN Err(invalid_request)
    ELSE LET map == json.o
             c == Get(map, "id")
             m == Get(map, "message")
         IN  IF ~c.some THEN Err(invalid_request)
             ELSE IF ~as_i64(c.v).some THEN Err(invalid_request)
             ELSE IF ~m.some THEN Err(invalid_request)
             ELSE IF ~as_string(m.v).some THEN Err(invalid_request)
             ELSE Ok(Error_new(as_i64(c.v).v, as_string(m.v).v, Get(map, "data")))

Response_new(payload) == [payload |-> payload, id |-> None]

\* a variant that writes no id for a response without id
Response_to_json_no_id(r) ==
    LET b0 == Insert(EmptyMap, "jsonrpc", JStr("2.0"))
        b1 == IF r.id.some THEN Insert(b0, "id", r.id.v) ELSE b0
        b2 == IF r.payload.ok THEN Insert(b1, "result", r.payload.v)
                              ELSE Insert(b1, "error", Error_to_json(r.payload.e))
    IN  JObj(b2)

Response_to_json(r) ==
    LET b0 == Insert(EmptyMap, "jsonrpc", JStr("2.0"))
        b1 == Insert(b0, "id", IF r.id.some THEN r.id.v ELSE JNull)
        b2 == IF r.payload.ok THEN Insert(b1, "result", r.payload.v)
                              ELSE Insert(b1, "error", Error_to_json(r.payload.e))
    IN  JObj(b2)

\* a variant that takes a missing id for null and prefers result over error
Response_from_json_lenient(map) ==
    LET id == IF "id" \in DOMAIN map THEN map["id"] ELSE JNull
    IN  IF "result" \in DOMAIN map
        THEN Ok([payload |-> Ok(map["result"]), id |-> Some(id)])
        ELSE IF "error" \in DOMAIN map /\ Error_from_json(map["error"]).ok
        THEN Ok([payload |-> Err(Error_from_json(map["error"]).v), id |-> Some(id)])
        ELSE Err(invalid_request)

\* Response::from_json on the map of a JSON object
Response_from_json(map) ==
    LET id == Get(map, "id")
        has_result == "result" \in DOMAIN map
        has_error == "error" \in DOMAIN map
    IN  IF ~id.some THEN Err(invalid_request)
        ELSE IF has_result /\ ~has_error
             THEN Ok([payload |-> Ok(map["result"]), id |-> Some(id.v)])
        ELSE IF ~has_result /\ has_error
             THEN LET e == Error_from_json(map["error"])
                  IN  IF e.ok
                      THEN Ok([payload |-> Err(e.v), id |-> Some(id.v)])
                      ELSE Err(e.e)
        ELSE Err(invalid_request)

(* --------------------------- the model's inputs ------------------------ *)
\* requests built by the application with Request::new
Calls == { Request_new("add", Some(Positional(<<JNum(1), JNum(2)>>))) }
Notifications == { Request_new("log", None) }

\* ids a response can carry: every id the endpoint can allocate
RespIds == 0..(MaxOps - 1)

SuccessJson(k) == JObj(Insert(Insert(Insert(EmptyMap, "jsonrpc", JStr("2.0")), "id", k), "result", JNum(3)))
ErrorJson(k) ==
    JObj(Insert(Insert(Insert(EmptyMap, "jsonrpc", JStr("2.0")), "id", k), "error",
         JObj(Insert(Insert(EmptyMap, "code", JNum(-32601)), "message", JStr("Method not found")))))
NoIdJson == JObj(Insert(Insert(EmptyMap, "jsonrpc", JStr("2.0")), "result", JNum(3)))

\* what the transport hands to payload_received: Ok(line) or Err(TransportError)
InboundOk == { to_string(SuccessJson(JNum(k))) : k \in RespIds }
             \cup { to_string(ErrorJson(JNum(0))), to_string(SuccessJson(JStr("0"))),
                    to_string(SuccessJson(JNull)), to_string(SuccessJson(JNum(-1))),
                    to_string(NoIdJson), to_string(JNum(7)), Garbage }
Inbound == { [ok |-> TRUE, text |-> p] : p \in InboundOk }
           \cup { [ok |-> FALSE, err |-> "EndOfFile"] }

\* TransportError (src/src/transport/mod.rs)
TransportError == {"EndOfFile", "TimedOut", "Interrupted", "ParseError", "EncodeError", "IOError"}

\* std::io::ErrorKind
ErrorKind ==
    {"NotFound", "PermissionDenied", "ConnectionRefused", "ConnectionReset",
     "ConnectionAborted", "NotConnected", "AddrInUse", "AddrNotAvailable", "BrokenPipe",
     "AlreadyExists", "WouldBlock", "InvalidInput", "InvalidData", "TimedOut", "WriteZero",
     "Interrupted", "Other", "UnexpectedEof"}

\* a variant that passes WouldBlock and WriteZero through
TransportError_from_strict(kind) ==
    IF kind \in {"NotFound", "PermissionDenied", "ConnectionRefused", "ConnectionReset",
                 "ConnectionAborted", "NotConnected", "AddrInUse", "AddrNotAvailable",
                 "BrokenPipe"} THEN "EndOfFile"
    ELSE IF kind = "TimedOut" THEN "TimedOut"
    ELSE IF kind = "Interrupted" THEN "Interrupted"
    ELSE "IOError"

\* impl From<io::Error> for TransportError, on the kind of the io::Error
TransportError_from(kind) ==
    IF kind \in {"NotFound", "PermissionDenied", "ConnectionRefused", "ConnectionReset",
                 "ConnectionAborted", "NotConnected", "AddrInUse", "AddrNotAvailable",
                 "BrokenPipe"} THEN "EndOfFile"
    ELSE IF kind \in {"TimedOut", "WriteZero", "WouldBlock"} THEN "TimedOut"
    ELSE IF kind = "Interrupted" THEN "Interrupted"
    ELSE "IOError"
\* outcomes of ClientTransport::send
SendResults == {"Ok"} \cup TransportError

(* ------------------------------- state --------------------------------- *)
VARIABLES
    next_id,        \* ClientEndpoint.next_id
    handlers,       \* the shared HashMap<RequestID, Box<ResponseHandler>>
    lock,           \* the handlers mutex: "free", "delivery" (held), "poisoned"
    send_channel,   \* payloads queued between Sender and Receiver
    rxAlive,        \* TRUE while the writer's Receiver exists
    callerPc,       \* position of the caller thread
    call,           \* locals of the call in progress
    conduit,        \* the (tx, rx) channel of the send_request_sync in progress
    elapsed,        \* Local::now() minus its value when send_request_sync read it
    results,        \* what each finished call returned
    nOps,           \* calls issued so far
    writerPc,       \* position of the writer thread
    writerCur,      \* payload the writer received and is sending
    dPc,            \* position of the delivery thread
    dCur,           \* response and handler the delivery thread works on
    nDeliv,         \* inbound payloads reported so far
    invoked,        \* every response_received call made so far
    registered,     \* id -> number of inserts into handlers
    submitted,      \* payloads accepted by the outbound channel, in order
    transportLog,   \* payloads passed to transport.send, in order
    seen,           \* ids of the responses that reached handle_response_with_id
    early           \* the delivery path handled the response to the synchronous
                    \* call in progress before the deadline

\* the server side (src/src/server): the thread that builds the endpoint and
\* the "ServerStreamTransport reader" thread
VARIABLES
    endpointPc,     \* position of the thread that calls ServerEndpoint::new
    callback_channel, \* callbacks queued between set_callback and the reader
    callback,       \* Reader.callback
    readerPc,       \* position of the reader thread
    readerCur,      \* the line the reader works on, whether set_callback had
                    \* returned when it was read, and its reply
    nRead,          \* results lines.next() has returned so far
    frames,         \* every line handed to handle_read_line, with what it returned
    handled,        \* every call of the RequestHandler made so far
    output          \* the lines written to the output stream, in order

\* the conversions of message.rs and transport/mod.rs taken alone: a value,
\* the operation applied to it, and its result
VARIABLES
    codecIn,        \* the value the operation is applied to
    codecOp,        \* the operation applied, "none" before
    codecOut        \* what the operation returned

\* the reader thread of ClientStreamTransport (src/src/client/stream.rs)
VARIABLES
    transportPc,    \* position of the thread that calls set_payload_handler
    handler_rx,     \* handlers queued between set_payload_handler and the reader
    lr_handler,     \* LineReader.handler
    lrPc,           \* position of the reader thread
    lrLine,         \* the line the reader works on
    nLines,         \* results lines.next() has returned so far
    lrLog           \* every result of lines.next(), and whether the handler got it

\* HTTPClientTransport and its Requestor threads (src/src/http/client.rs)
VARIABLES
    payload_handler, \* HTTPClientTransport.payload_handler
    requestors,     \* one entry per Requestor thread: its position and its result
    handlerMutex,   \* the mutex around the handler: 0, or the thread holding it
    received,       \* every call of payload_received made so far
    sendReturns     \* what each call of send returned

lineReaderVars == <<transportPc, handler_rx, lr_handler, lrPc, lrLine, nLines, lrLog>>
httpVars == <<payload_handler, requestors, handlerMutex, received, sendReturns>>
transportVars == <<lineReaderVars, httpVars>>

clientVars == <<next_id, handlers, lock, send_channel, rxAlive, callerPc, call, conduit,
                elapsed, results, nOps, writerPc, writerCur, dPc, dCur, nDeliv, invoked,
                registered, submitted, transportLog, seen, early>>
serverVars == <<endpointPc, callback_channel, callback, readerPc, readerCur, nRead, frames,
                handled, output>>
codecVars == <<codecIn, codecOp, codecOut>>

vars == <<next_id, handlers, lock, send_channel, rxAlive, callerPc, call, conduit, elapsed,
          results, nOps, writerPc, writerCur, dPc, dCur, nDeliv, invoked, registered,
          submitted, transportLog, seen, early, serverVars, codecVars, transportVars>>

NoCall == [api |-> "none", op |-> 0, id |-> None, handler |-> None, end |-> 0]
NoDelivery == [id |-> 0, response |-> None, handler |-> None]

NoLine == [line |-> Garbage, reply |-> None, installed |-> FALSE]

\* ServerStreamTransport::new: the reader thread runs, no callback is set
ServerStreamTransport_new ==
    /\ endpointPc = "new"
    /\ callback_channel = <<>>
    /\ callback = None
    /\ readerPc = "try_recv"
    /\ readerCur = NoLine
    /\ nRead = 0
    /\ frames = <<>>
    /\ handled = <<>>
    /\ output = <<>>

\* ClientStreamTransport::new: the reader thread runs, no handler is set
ClientStreamTransport_new ==
    /\ transportPc = "new"
    /\ handler_rx = <<>>
    /\ lr_handler = None
    /\ lrPc = "next"
    /\ lrLine = None
    /\ nLines = 0
    /\ lrLog = <<>>

\* HTTPClientTransport::new
HTTPClientTransport_new ==
    /\ payload_handler = None
    /\ requestors = <<>>
    /\ handlerMutex = 0
    /\ received = <<>>
    /\ sendReturns = <<>>

\* no operation of the codec has been applied
NoValue == [kind |-> "none"]
CodecIdle ==
    /\ codecIn = NoValue
    /\ codecOp = "none"
    /\ codecOut = NoValue

\* ClientEndpoint::new
ClientEndpoint_new ==
    /\ next_id = 0
    /\ handlers = [k \in {} |-> None]
    /\ lock = "free"
    /\ send_channel = <<>>
    /\ rxAlive = TRUE
    /\ callerPc = "idle"
    /\ call = NoCall
    /\ conduit = <<>>
    /\ elapsed = 0
    /\ results = <<>>
    /\ nOps = 0
    /\ writerPc = "recv"
    /\ writerCur = None
    /\ dPc = "idle"
    /\ dCur = NoDelivery
    /\ nDeliv = 0
    /\ invoked = <<>>
    /\ registered = [k \in 0..MaxOps |-> 0]
    /\ submitted = <<>>
    /\ transportLog = <<>>
    /\ seen = {}
    /\ early = FALSE

\* a client endpoint, and beside it a server transport without its endpoint
Init ==
    /\ ClientEndpoint_new
    /\ ServerStreamTransport_new
    /\ CodecIdle
    /\ ClientStreamTransport_new
    /\ HTTPClientTransport_new

(* ----------------------- the caller thread ----------------------------- *)
\* a response handler: the closure passed to send_request, or the one-shot
\* closure send_request_sync builds around its Sender; op names the call
\* that created it
Closure(op) == [kind |-> "closure", op |-> op]
OneShot(op) == [kind |-> "oneshot", op |-> op]

\* a variant whose channel accepts payloads after the Receiver is gone
send_result_open(enc) ==
    IF ~enc THEN "EncodeError"
    ELSE "Ok"

\* ClientEndpoint::send: the result of serializing and submitting a request
send_result(enc) ==
    IF ~enc THEN "EncodeError"
    ELSE IF rxAlive THEN "Ok"
    ELSE "EndOfFile"

\* ClientEndpoint::send: its effect on the outbound channel
send(request, enc) ==
    LET json_text == to_string(Request_to_json(request))
    IN  IF send_result(enc) = "Ok"
        THEN /\ send_channel' = Append(send_channel, json_text)
             /\ submitted' = Append(submitted, json_text)
        ELSE UNCHANGED <<send_channel, submitted>>

Return(op, api, id, res, response) ==
    results' = Append(results, [op |-> op, api |-> api, id |-> id, res |-> res,
                                response |-> response, early |-> early])

\* a variant that gives the id of a failed send back to the counter
send_request_submit_reclaim(request, handler, enc, api, op, end) ==
    LET id == next_id
        stamped == set_id(request, JNum(id))
    IN  /\ send(stamped, enc)
        /\ IF send_result(enc) = "Ok"
           THEN /\ next_id' = next_id + 1
                /\ callerPc' = "lock"
                /\ call' = [api |-> api, op |-> op, id |-> Some(id),
                            handler |-> Some(handler), end |-> end]
                /\ UNCHANGED results
           ELSE /\ next_id' = next_id
                /\ callerPc' = "idle"
                /\ call' = NoCall
                /\ Return(op, api, Some(id), send_result(enc), None)
    /\ UNCHANGED <<serverVars, codecVars, transportVars>>

\* a variant that leaves the counter where it was
send_request_submit_stale(request, handler, enc, api, op, end) ==
    LET id == next_id
        stamped == set_id(request, JNum(id))
    IN  /\ next_id' = next_id
        /\ send(stamped, enc)
        /\ IF send_result(enc) = "Ok"
           THEN /\ callerPc' = "lock"
                /\ call' = [api |-> api, op |-> op, id |-> Some(id),
                            handler |-> Some(handler), end |-> end]
                /\ UNCHANGED results
           ELSE /\ callerPc' = "idle"
                /\ call' = NoCall
                /\ Return(op, api, Some(id), send_result(enc), None)
    /\ UNCHANGED <<serverVars, codecVars, transportVars>>

\* send_request up to and including try!(self.send(request))
send_request_submit(request, handler, enc, api, op, end) ==
    LET id == next_id
        stamped == set_id(request, JNum(id))
    IN  /\ next_id' = next_id + 1
        /\ send(stamped, enc)
        /\ IF send_result(enc) = "Ok"
           THEN /\ callerPc' = "lock"
                /\ call' = [api |-> api, op |-> op, id |-> Some(id),
                            handler |-> Some(handler), end |-> end]
                /\ UNCHANGED results
           ELSE /\ callerPc' = "idle"
                /\ call' = NoCall
                /\ Return(op, api, Some(id), send_result(enc), None)
    /\ UNCHANGED <<serverVars, codecVars, transportVars>>

\* ClientEndpoint::send_request, up to the return of self.send
send_request(request, enc) ==
    /\ callerPc = "idle"
    /\ nOps < MaxOps
    /\ nOps' = nOps + 1
    /\ send_request_submit(request, Closure(nOps + 1), enc, "send_request", nOps + 1, 0)
    /\ UNCHANGED <<handlers, lock, rxAlive, conduit, elapsed, writerPc, writerCur, dPc,
                   dCur, nDeliv, invoked, registered, transportLog, seen, early>>

\* send_request, after the send: lock the table, assert, insert; the guard is
\* dropped on return
send_request_insert ==
    /\ callerPc = "lock"
    /\ lock = "free"
    /\ IF call.id.v \in DOMAIN handlers
       THEN \* assert!(!handlers.contains_key(&id)) fails: the thread panics
            \* holding the guard, which poisons the mutex
            /\ callerPc' = "panicked"
            /\ lock' = "poisoned"
            /\ UNCHANGED <<handlers, registered, results, call>>
       ELSE /\ handlers' = Insert(handlers, call.id.v, call.handler.v)
            /\ registered' = [registered EXCEPT ![call.id.v] = @ + 1]
            /\ lock' = "free"
            /\ IF call.api = "send_request_sync"
               THEN /\ callerPc' = "try_recv"
                    /\ UNCHANGED <<results, call>>
               ELSE /\ callerPc' = "idle"
                    /\ call' = NoCall
                    /\ Return(call.op, call.api, call.id, "Ok", None)
    /\ UNCHANGED <<next_id, send_channel, rxAlive, conduit, elapsed, nOps, writerPc,
                   writerCur, dPc, dCur, nDeliv, invoked, submitted, transportLog, seen,
                   early>>
    /\ UNCHANGED <<serverVars, codecVars, transportVars>>

\* a variant that stamps a fresh id onto the notification
send_notification_stamped(notification, enc) ==
    /\ callerPc = "idle"
    /\ nOps < MaxOps
    /\ nOps' = nOps + 1
    /\ next_id' = next_id + 1
    /\ send(set_id(notification, JNum(next_id)), enc)
    /\ Return(nOps + 1, "send_notification", None, send_result(enc), None)
    /\ UNCHANGED <<handlers, lock, rxAlive, callerPc, call, conduit, elapsed, writerPc,
                   writerCur, dPc, dCur, nDeliv, invoked, registered, transportLog, seen,
                   early>>
    /\ UNCHANGED <<serverVars, codecVars, transportVars>>

\* ClientEndpoint::send_notification
send_notification(notification, enc) ==
    /\ callerPc = "idle"
    /\ nOps < MaxOps
    /\ nOps' = nOps + 1
    /\ send(notification, enc)
    /\ Return(nOps + 1, "send_notification", None, send_result(enc), None)
    /\ UNCHANGED <<next_id, handlers, lock, rxAlive, callerPc, call, conduit, elapsed,
                   writerPc, writerCur, dPc, dCur, nDeliv, invoked, registered,
                   transportLog, seen, early>>
    /\ UNCHANGED <<serverVars, codecVars, transportVars>>

\* send_request_sync, up to the return of self.send: the deadline end is
\* timeout after the clock value read, the one-shot closure owns tx
send_request_sync(request, timeout, enc) ==
    /\ callerPc = "idle"
    /\ nOps < MaxOps
    /\ nOps' = nOps + 1
    /\ elapsed' = 0
    /\ early' = FALSE
    /\ conduit' = <<>>
    /\ send_request_submit(request, OneShot(nOps + 1), enc, "send_request_sync", nOps + 1,
                           timeout)
    /\ UNCHANGED <<handlers, lock, rxAlive, writerPc, writerCur, dPc, dCur, nDeliv, invoked,
                   registered, transportLog, seen>>
    /\ UNCHANGED <<serverVars, codecVars, transportVars>>

\* the Sender of a one-shot handler lives as long as the handler does
TxAlive(op) ==
    \/ \E k \in DOMAIN handlers : handlers[k] = OneShot(op)
    \/ dCur.handler = Some(OneShot(op))
    \/ callerPc = "lock" /\ call.handler = Some(OneShot(op))

\* the Receiver lives until send_request_sync returns
RxAlive(op) ==
    /\ call.api = "send_request_sync"
    /\ call.op = op

\* send_request_sync: rx.try_recv()
try_recv ==
    /\ callerPc = "try_recv"
    /\ IF conduit # <<>>
       THEN /\ Return(call.op, call.api, call.id, "Response", Some(Head(conduit)))
            /\ callerPc' = "idle"
            /\ call' = NoCall
            /\ conduit' = <<>>
            /\ elapsed' = 0
            /\ early' = FALSE
       ELSE IF TxAlive(call.op)
       THEN /\ callerPc' = "check_time"
            /\ UNCHANGED <<results, call, conduit, elapsed, early>>
       ELSE /\ Return(call.op, call.api, call.id, "TimedOut", None)
            /\ callerPc' = "idle"
            /\ call' = NoCall
            /\ elapsed' = 0
            /\ early' = FALSE
            /\ UNCHANGED conduit
    /\ UNCHANGED <<next_id, handlers, lock, send_channel, rxAlive, nOps, writerPc,
                   writerCur, dPc, dCur, nDeliv, invoked, registered, submitted,
                   transportLog, seen>>
    /\ UNCHANGED <<serverVars, codecVars, transportVars>>

\* a variant that evicts the entry of the call when it times out
check_time_evict ==
    /\ callerPc = "check_time"
    /\ IF elapsed > call.end
       THEN /\ Return(call.op, call.api, call.id, "TimedOut", None)
            /\ handlers' = [k \in (DOMAIN handlers) \ {call.id.v} |-> handlers[k]]
            /\ callerPc' = "idle"
            /\ call' = NoCall
            /\ conduit' = <<>>
            /\ elapsed' = 0
            /\ early' = FALSE
       ELSE /\ callerPc' = "try_recv"
            /\ UNCHANGED <<results, call, conduit, elapsed, handlers, early>>
    /\ UNCHANGED <<next_id, lock, send_channel, rxAlive, nOps, writerPc, writerCur, dPc,
                   dCur, nDeliv, invoked, registered, submitted, transportLog, seen>>
    /\ UNCHANGED <<serverVars, codecVars, transportVars>>

\* send_request_sync: if Local::now() > end
check_time ==
    /\ callerPc = "check_time"
    /\ IF elapsed > call.end
       THEN /\ Return(call.op, call.api, call.id, "TimedOut", None)
            /\ callerPc' = "idle"
            /\ call' = NoCall
            /\ conduit' = <<>>
            /\ elapsed' = 0
            /\ early' = FALSE
       ELSE /\ callerPc' = "try_recv"
            /\ UNCHANGED <<results, call, conduit, elapsed, early>>
    /\ UNCHANGED <<next_id, handlers, lock, send_channel, rxAlive, nOps, writerPc,
                   writerCur, dPc, dCur, nDeliv, invoked, registered, submitted,
                   transportLog, seen>>
    /\ UNCHANGED <<serverVars, codecVars, transportVars>>

\* the clock advances; only send_request_sync reads it, and one tick past
\* its deadline is as late as any later time
Tick ==
    /\ call.api = "send_request_sync"
    /\ elapsed <= call.end
    /\ elapsed' = elapsed + 1
    /\ UNCHANGED <<next_id, handlers, lock, send_channel, rxAlive, callerPc, call, conduit,
                   results, nOps, writerPc, writerCur, dPc, dCur, nDeliv, invoked,
                   registered, submitted, transportLog, seen, early>>
    /\ UNCHANGED <<serverVars, codecVars, transportVars>>

(* ------------------------ the writer thread ---------------------------- *)
\* a variant that returns the newest payload queued
recv_newest(channel) == channel[Len(channel)]
\* the payload Receiver::recv returns: the oldest one queued
recv(channel) == Head(channel)
\* a variant that discards what was queued behind the payload
after_recv_all(channel) == <<>>
\* what stays queued after that recv
after_recv(channel) == Tail(channel)

\* StreamWriter::run: self.channel.recv().  recv blocks while the channel is
\* empty; the ClientEndpoint, which owns the Sender, lives throughout
run ==
    /\ writerPc = "recv"
    /\ send_channel # <<>>
    /\ writerCur' = Some(recv(send_channel))
    /\ send_channel' = after_recv(send_channel)
    /\ writerPc' = "send"
    /\ UNCHANGED <<next_id, handlers, lock, rxAlive, callerPc, call, conduit, elapsed,
                   results, nOps, dPc, dCur, nDeliv, invoked, registered, submitted,
                   transportLog, seen, early>>
    /\ UNCHANGED <<serverVars, codecVars, transportVars>>

\* the errors of transport.send that send_payload only logs
Transient(e) == e \in {"TimedOut", "Interrupted", "EncodeError"}

\* StreamWriter::send_payload, with the result of self.transport.send(payload)
send_payload(res) ==
    /\ writerPc = "send"
    /\ transportLog' = Append(transportLog, [payload |-> writerCur.v, ok |-> res = "Ok"])
    /\ writerCur' = None
    /\ IF res = "Ok" \/ Transient(res)
       THEN /\ writerPc' = "recv"
            /\ UNCHANGED <<send_channel, rxAlive>>
       ELSE \* panic!: the thread unwinds and drops the Receiver with all it holds
            /\ writerPc' = "panicked"
            /\ rxAlive' = FALSE
            /\ send_channel' = <<>>
    /\ UNCHANGED <<next_id, handlers, lock, callerPc, call, conduit, elapsed, results, nOps,
                   dPc, dCur, nDeliv, invoked, registered, submitted, seen, early>>
    /\ UNCHANGED <<serverVars, codecVars, transportVars>>

(* ----------------------- the delivery thread --------------------------- *)
\* a variant that takes the id as a signed integer
handle_response_signed(response) ==
    IF ~response.id.some THEN None
    ELSE IF ~as_i64(response.id.v).some THEN None
    ELSE Some([id |-> as_i64(response.id.v).v, response |-> response])

\* StreamPayloadHandler::handle_response: the u64 id of a response, if it has one
handle_response(response) ==
    IF ~response.id.some THEN None
    ELSE IF ~as_u64(response.id.v).some THEN None
    ELSE Some([id |-> as_u64(response.id.v).v, response |-> response])

\* StreamPayloadHandler::handle_json
handle_json(json) ==
    IF json.t # "obj" THEN None
    ELSE IF ~Response_from_json(json.o).ok THEN None
    ELSE handle_response(Response_from_json(json.o).v)

\* StreamPayloadHandler::handle_payload
handle_payload(payload) ==
    IF ~from_str(payload).some THEN None
    ELSE handle_json(from_str(payload).v)

\* ids of the requests the transport accepted (transport.send returned Ok)
Transported ==
    { as_u64(transportLog[i].payload.v.o["id"]).v :
        i \in { j \in 1..Len(transportLog) :
                  transportLog[j].ok /\ "id" \in DOMAIN transportLog[j].payload.v.o } }

\* the delivery path is done, before the deadline, with the response to the
\* synchronous call in progress, whose request the transport had accepted
EarlyFor(id) ==
    /\ call.api = "send_request_sync"
    /\ call.id = Some(id)
    /\ id \in Transported
    /\ elapsed < call.end

\* PayloadHandler::payload_received, up to the call of handle_response_with_id
payload_received(result) ==
    /\ dPc = "idle"
    /\ nDeliv < MaxDeliveries
    /\ nDeliv' = nDeliv + 1
    /\ LET d == IF result.ok THEN handle_payload(result.text) ELSE None
       IN  IF d.some
           THEN /\ dPc' = "lock"
                /\ dCur' = [id |-> d.v.id, response |-> Some(d.v.response), handler |-> None]
           ELSE \* logged and dropped
                UNCHANGED <<dPc, dCur>>
    /\ UNCHANGED <<next_id, handlers, lock, send_channel, rxAlive, callerPc, call, conduit,
                   elapsed, results, nOps, writerPc, writerCur, invoked, registered,
                   submitted, transportLog, seen, early>>
    /\ UNCHANGED <<serverVars, codecVars, transportVars>>

\* HashMap::remove: the entry taken out of the table
removed(table, id) == Get(table, id)
\* a variant that empties the table
remove_all(table, id) == [k \in {} |-> table[k]]
\* a variant that leaves the entry in the table
remove_none(table, id) == table
\* HashMap::remove: the table that is left
remove(table, id) == [k \in (DOMAIN table) \ {id} |-> table[k]]

\* a variant that unwraps the removed entry and panics when there is none
handle_response_with_id_unwrap ==
    /\ dPc = "lock"
    /\ lock = "free"
    /\ seen' = seen \cup {dCur.id}
    /\ IF removed(handlers, dCur.id).some
       THEN /\ handlers' = remove(handlers, dCur.id)
            /\ dCur' = [dCur EXCEPT !.handler = removed(handlers, dCur.id)]
            /\ lock' = "delivery"
            /\ dPc' = "handler"
            /\ UNCHANGED early
       ELSE /\ dPc' = "panicked"
            /\ lock' = "poisoned"
            /\ early' = (early \/ EarlyFor(dCur.id))
            /\ UNCHANGED <<handlers, dCur>>
    /\ UNCHANGED <<next_id, send_channel, rxAlive, callerPc, call, conduit, elapsed, results,
                   nOps, writerPc, writerCur, nDeliv, invoked, registered, submitted,
                   transportLog>>
    /\ UNCHANGED <<serverVars, codecVars, transportVars>>

\* handle_response_with_id: lock the table and remove the entry of id
handle_response_with_id ==
    /\ dPc = "lock"
    /\ lock = "free"
    /\ seen' = seen \cup {dCur.id}
    /\ IF removed(handlers, dCur.id).some
       THEN \* Some(handler): the guard is still alive in the match arm
            /\ handlers' = remove(handlers, dCur.id)
            /\ dCur' = [dCur EXCEPT !.handler = removed(handlers, dCur.id)]
            /\ lock' = "delivery"
            /\ dPc' = "handler"
            /\ UNCHANGED early
       ELSE \* None: logged, the guard is dropped on return
            /\ dPc' = "idle"
            /\ dCur' = NoDelivery
            /\ early' = (early \/ EarlyFor(dCur.id))
            /\ UNCHANGED <<handlers, lock>>
    /\ UNCHANGED <<next_id, send_channel, rxAlive, callerPc, call, conduit, elapsed, results,
                   nOps, writerPc, writerCur, nDeliv, invoked, registered, submitted,
                   transportLog>>
    /\ UNCHANGED <<serverVars, codecVars, transportVars>>

\* what a handler does with a response: the closure of the application is
\* called; the one-shot closure sends it to rx, or drops it when rx is gone
outcome(handler) ==
    IF handler.kind = "closure" THEN "called"
    ELSE IF RxAlive(handler.op) THEN "forwarded"
    ELSE "hung_up"

\* handler.response_received(response), then the return of handle_response_with_id
response_received ==
    /\ dPc = "handler"
    /\ invoked' = Append(invoked, [id |-> dCur.id, handler |-> dCur.handler.v,
                                   outcome |-> outcome(dCur.handler.v)])
    /\ conduit' = IF outcome(dCur.handler.v) = "forwarded"
                  THEN Append(conduit, dCur.response.v)
                  ELSE conduit
    /\ early' = (early \/ EarlyFor(dCur.id))
    /\ lock' = "free"
    /\ dPc' = "idle"
    /\ dCur' = NoDelivery
    /\ UNCHANGED <<next_id, handlers, send_channel, rxAlive, callerPc, call, elapsed,
                   results, nOps, writerPc, writerCur, nDeliv, registered, submitted,
                   transportLog, seen>>
    /\ UNCHANGED <<serverVars, codecVars, transportVars>>

(* --------------------------- specification ----------------------------- *)
Next ==
    \/ \E r \in Calls, enc \in BOOLEAN : send_request(r, enc)
    \/ send_request_insert
    \/ \E r \in Notifications, enc \in BOOLEAN : send_notification(r, enc)
    \/ \E r \in Calls, enc \in BOOLEAN : send_request_sync(r, MaxTimeout, enc)
    \/ try_recv
    \/ check_time
    \/ Tick
    \/ run
    \/ \E res \in SendResults : send_payload(res)
    \/ \E result \in Inbound : payload_received(result)
    \/ handle_response_with_id
    \/ response_received

Spec == Init /\ [][Next]_vars

\* the writer is a thread of its own that loops over recv and send_payload:
\* once a payload is queued recv returns it, and transport.send returns
WriterFairness ==
    /\ WF_vars(run)
    /\ WF_vars(\E res \in SendResults : send_payload(res))

\* the caller and the writer thread alone: no payload arrives from the
\* transport, so the delivery thread, which shares no variable with the
\* writer, never runs
NextWriter ==
    \/ \E r \in Calls, enc \in BOOLEAN : send_request(r, enc)
    \/ send_request_insert
    \/ \E r \in Notifications, enc \in BOOLEAN : send_notification(r, enc)
    \/ \E r \in Calls, enc \in BOOLEAN : send_request_sync(r, MaxTimeout, enc)
    \/ try_recv
    \/ check_time
    \/ Tick
    \/ run
    \/ \E res \in SendResults : send_payload(res)

SpecWriter == Init /\ [][NextWriter]_vars /\ WriterFairness

(* ------------------------- the server responder ------------------------ *)
\* what RequestHandler::handle_request of the application can return
HandlerResults == { Ok(JNum(3)), Err(method_not_found) }

\* a variant that takes every request for a notification
Responder_handle_request_notify(request, result) ==
    [called |-> "handle_notification", response |-> None]

\* a variant that takes every request for a call
Responder_handle_request_call(request, result) ==
    [called |-> "handle_request", response |-> Some(Response_new(result))]

\* Responder::handle_request: the method of the handler that is called and the
\* response that is built from what the handler returns
Responder_handle_request(request, result) ==
    IF request.id.some
    THEN [called |-> "handle_request", response |-> Some(Response_new(result))]
    ELSE [called |-> "handle_notification", response |-> None]

\* Responder::handle_json
Responder_handle_json(json, result) ==
    IF Request_from_json(json).ok
    THEN LET r == Responder_handle_request(Request_from_json(json).v, result)
         IN  [called |-> r.called,
              reply |-> IF r.response.some THEN Some(Response_to_json(r.response.v)) ELSE None]
    ELSE [called |-> "none",
          reply |-> Some(Response_to_json(Response_new(Err(Request_from_json(json).e))))]

\* a variant that leaves the reply as the responder built it
with_request_id_kept(json, request_id) == json

\* the reply with the id of the inbound object put over its own
with_request_id(json, request_id) ==
    IF json.t = "obj" /\ request_id.some
    THEN JObj(Insert(json.o, "id", request_id.v))
    ELSE json

\* ServerCallback::handle_request of the Responder
ServerCallback_handle_request(request, result) ==
    IF from_str(request).some
    THEN LET json == from_str(request).v
             request_id == IF json.t = "obj" THEN Get(json.o, "id") ELSE None
             r == Responder_handle_json(json, result)
         IN  [called |-> r.called,
              text |-> IF r.reply.some
                       THEN Some(to_string(with_request_id(r.reply.v, request_id)))
                       ELSE None]
    ELSE [called |-> "none",
          text |-> Some(to_string(Response_to_json(Response_new(Err(parse_error)))))]

(* ----------------------- the server's inputs --------------------------- *)
\* a JSON object with the given members
Object1(k1, v1) == JObj(Insert(EmptyMap, k1, v1))
Object2(k1, v1, k2, v2) == JObj(Insert(Insert(EmptyMap, k1, v1), k2, v2))
Object3(k1, v1, k2, v2, k3, v3) == JObj(Insert(Insert(Insert(EmptyMap, k1, v1), k2, v2), k3, v3))

\* lines a peer can send: calls, a notification, and frames that are no Request
CallLines == { to_string(Request_to_json(set_id(r, id))) : r \in Calls, id \in {JNum(1), JStr("a")} }
NotificationLines == { to_string(Request_to_json(r)) : r \in Notifications }
InvalidLines ==
    { to_string(JNum(7)),
      to_string(Object1("jsonrpc", JStr("2.0"))),
      to_string(Object2("jsonrpc", JStr("2.0"), "id", JNum(2))),
      to_string(Object3("jsonrpc", JStr("2.0"), "method", JNum(5), "id", JStr("b"))),
      to_string(Object3("jsonrpc", JStr("2.0"), "method", JStr("add"), "params", JNum(7))),
      to_string(Object3("method", JStr("add"), "params", JStr("x"), "id", JNull)) }
Lines == CallLines \cup NotificationLines \cup InvalidLines \cup {Garbage}

\* lines.next() at the end of the input
EndOfInput == [eof |-> TRUE]
\* what lines.next() returns: a line, an io::Error of some kind, or None
ReadResults == { Ok(l) : l \in Lines } \cup { Err(k) : k \in ErrorKind } \cup { EndOfInput }
\* what send_response returns: Ok, or an io::Error of some kind
WriteResults == { "Ok" } \cup ErrorKind

\* Reader::run: the Result<String, TransportError> made of what lines.next() returned
line_result_of(next) ==
    IF "eof" \in DOMAIN next THEN Err("EndOfFile")
    ELSE IF next.ok THEN Ok(next.v)
    ELSE Err(TransportError_from(next.e))

(* ------------------------ the server's threads ------------------------- *)
\* ServerEndpoint::new: the responder is sent to the reader thread
set_callback ==
    /\ endpointPc = "new"
    /\ endpointPc' = "done"
    /\ callback_channel' = IF readerPc = "panicked"
                           THEN callback_channel
                           ELSE Append(callback_channel, "Responder")
    /\ UNCHANGED <<callback, readerPc, readerCur, nRead, frames, handled, output>>
    /\ UNCHANGED <<clientVars, codecVars, transportVars>>

\* Reader::run: the check for a new callback at the top of the loop
Reader_try_recv ==
    /\ readerPc = "try_recv"
    /\ nRead < MaxFrames
    /\ IF callback_channel # <<>>
       THEN /\ callback' = Some(Head(callback_channel))
            /\ callback_channel' = Tail(callback_channel)
       ELSE UNCHANGED <<callback, callback_channel>>
    /\ readerPc' = "next"
    /\ UNCHANGED <<endpointPc, readerCur, nRead, frames, handled, output>>
    /\ UNCHANGED <<clientVars, codecVars, transportVars>>

\* Reader::handle_transport_error returns for these errors and panics for the rest
Ignored(e) == e \in {"TimedOut", "Interrupted", "ParseError"}

\* Reader::run: lines.next() returns
lines_next(next) ==
    /\ readerPc = "next"
    /\ nRead' = nRead + 1
    /\ LET line_result == line_result_of(next)
       IN  IF line_result.ok
           THEN /\ readerPc' = "handle_read_line"
                /\ readerCur' = [line |-> line_result.v, reply |-> None,
                                 installed |-> endpointPc = "done"]
           ELSE /\ readerPc' = IF Ignored(line_result.e) THEN "try_recv" ELSE "panicked"
                /\ UNCHANGED readerCur
    /\ UNCHANGED <<endpointPc, callback_channel, callback, frames, handled, output>>
    /\ UNCHANGED <<clientVars, codecVars, transportVars>>

\* the entry of frames for the line in readerCur
Frame(called, reply) ==
    [line |-> readerCur.line, installed |-> readerCur.installed,
     delivered |-> callback.some, called |-> called, reply |-> reply]

\* where the reader goes with the reply of handle_read_line
after_handle_read_line(reply) == IF reply.some THEN "send_response" ELSE "try_recv"

\* Reader::handle_read_line, up to the call of the application's handler
handle_read_line ==
    /\ readerPc = "handle_read_line"
    /\ IF ~callback.some
       THEN \* no callback: the line is passed over
            /\ frames' = Append(frames, Frame("none", None))
            /\ readerPc' = "try_recv"
            /\ readerCur' = NoLine
            /\ UNCHANGED handled
       ELSE LET r == ServerCallback_handle_request(readerCur.line, Ok(JNull))
            IN  IF r.called = "none"
                THEN /\ frames' = Append(frames, Frame("none", r.text))
                     /\ readerPc' = after_handle_read_line(r.text)
                     /\ readerCur' = [readerCur EXCEPT !.reply = r.text]
                     /\ UNCHANGED handled
                ELSE /\ handled' = Append(handled,
                            [frame |-> Len(frames) + 1, called |-> r.called,
                             request |-> Request_from_json(from_str(readerCur.line).v).v,
                             returned |-> FALSE, result |-> None])
                     /\ readerPc' = "handler"
                     /\ UNCHANGED <<frames, readerCur>>
    /\ UNCHANGED <<endpointPc, callback_channel, callback, nRead, output>>
    /\ UNCHANGED <<clientVars, codecVars, transportVars>>

\* the application's handler returns result, and handle_read_line returns
RequestHandler_returns(result) ==
    /\ readerPc = "handler"
    /\ LET r == ServerCallback_handle_request(readerCur.line, result)
       IN  /\ handled' = [handled EXCEPT ![Len(handled)].returned = TRUE,
                                         ![Len(handled)].result =
                                             IF r.called = "handle_request"
                                             THEN Some(result) ELSE None]
           /\ frames' = Append(frames, Frame(r.called, r.text))
           /\ readerPc' = after_handle_read_line(r.text)
           /\ readerCur' = IF r.text.some THEN [readerCur EXCEPT !.reply = r.text] ELSE NoLine
    /\ UNCHANGED <<endpointPc, callback_channel, callback, nRead, output>>
    /\ UNCHANGED <<clientVars, codecVars, transportVars>>

\* a variant that puts the line before what was written
write_all_first(out, response) == <<response>> \o out

\* BufWriter::write_all and flush: the line is appended to the output stream
write_all(out, response) == Append(out, response)

\* Reader::send_response, and handle_transport_error when it fails
send_response(res) ==
    /\ readerPc = "send_response"
    /\ IF res = "Ok"
       THEN /\ output' = write_all(output, readerCur.reply.v)
            /\ readerPc' = "try_recv"
       ELSE /\ readerPc' = IF Ignored(TransportError_from(res)) THEN "try_recv"
                                                                  ELSE "panicked"
            /\ UNCHANGED output
    /\ readerCur' = NoLine
    /\ UNCHANGED <<endpointPc, callback_channel, callback, nRead, frames, handled>>
    /\ UNCHANGED <<clientVars, codecVars, transportVars>>

NextServer ==
    \/ set_callback
    \/ Reader_try_recv
    \/ \E next \in ReadResults : lines_next(next)
    \/ handle_read_line
    \/ \E result \in HandlerResults : RequestHandler_returns(result)
    \/ \E res \in WriteResults : send_response(res)

SpecServer == Init /\ [][NextServer]_vars

(* --------------------------- the codec alone --------------------------- *)
\* JSON values the messages are built from
Scalars == { JNull, JStr("x") } \cup { JNum(n) : n \in -MaxInt..MaxInt }
Values == Scalars \cup { JArr(<<>>), JArr(<<JNum(1), JStr("x")>>), JObj(EmptyMap) }

ParamsValues ==
    { Positional(<<>>), Positional(<<JNum(1), JNum(2)>>), Named(EmptyMap) }
    \cup { Positional(<<v>>) : v \in Scalars }
    \cup { Named([k \in {"a"} |-> v]) : v \in Scalars }

\* every Request with these methods, params and ids
Requests ==
    { [method |-> m, params |-> p, id |-> i] :
        m \in {"add", "log"},
        p \in {None} \cup { Some(x) : x \in ParamsValues },
        i \in {None} \cup { Some(v) : v \in Scalars } }

\* the standard errors, and errors with small codes, with and without data
Errors ==
    { method_not_found, parse_error, invalid_request }
    \cup { Error_new(c, m, d) : c \in -MaxInt..MaxInt, m \in {"", "failed"},
                               d \in {None, Some(JNull), Some(JNum(0))} }

\* every Response with these payloads and ids
Responses ==
    { [payload |-> pl, id |-> i] :
        pl \in { Ok(v) : v \in Values } \cup { Err(e) : e \in Errors },
        i \in {None} \cup { Some(v) : v \in Scalars } }

\* values found under the key "error" of an inbound object
ErrorMembers ==
    { Error_to_json(method_not_found),
      Object2("id", JNum(-32601), "message", JStr("Method not found")),
      Object3("id", JNum(2), "code", JNum(-32601), "message", JStr("Method not found")),
      Object1("code", JNum(-32601)),
      JNum(5) }

\* the map with the members that are given
Members(id, result, error) ==
    LET m0 == Insert(EmptyMap, "jsonrpc", JStr("2.0"))
        m1 == IF id.some THEN Insert(m0, "id", id.v) ELSE m0
        m2 == IF result.some THEN Insert(m1, "result", result.v) ELSE m1
    IN  IF error.some THEN Insert(m2, "error", error.v) ELSE m2

\* inbound objects with and without id, result and error
ResponseMaps ==
    { Members(i, r, e) :
        i \in {None, Some(JNull), Some(JNum(1)), Some(JStr("a"))},
        r \in {None, Some(JNull), Some(JNum(3))},
        e \in {None} \cup { Some(x) : x \in ErrorMembers } }

\* JSON values given to Params::from_json
ParamsJsons ==
    Values \cup { JBool(TRUE), JBool(FALSE), JObj([k \in {"a", "b"} |-> JStr(k)]) }
           \cup { JObj([k \in {"a"} |-> v]) : v \in Scalars }
           \cup { JArr(<<v, JNull>>) : v \in Scalars }

\* the object with the members that are given, for Request::from_json
RequestMembers(jsonrpc, method, params, id) ==
    LET m0 == IF jsonrpc.some THEN Insert(EmptyMap, "jsonrpc", jsonrpc.v) ELSE EmptyMap
        m1 == IF method.some THEN Insert(m0, "method", method.v) ELSE m0
        m2 == IF params.some THEN Insert(m1, "params", params.v) ELSE m1
    IN  JObj(IF id.some THEN Insert(m2, "id", id.v) ELSE m2)

\* JSON values given to Request::from_json
RequestJsons ==
    { JNull, JNum(7), JStr("add"), JBool(TRUE), JArr(<<JStr("add")>>) }
    \cup { RequestMembers(j, m, p, i) :
              j \in {None, Some(JStr("2.0"))},
              m \in {None, Some(JStr("add")), Some(JNum(5)), Some(JNull)},
              p \in {None, Some(JArr(<<JNum(1), JNum(2)>>)), Some(JObj([k \in {"a"} |-> JNum(1)])),
                     Some(JNum(7)), Some(JStr("x")), Some(JNull), Some(JBool(FALSE))},
              i \in {None, Some(JNull), Some(JNum(1)), Some(JStr("a"))} }

\* one value is given to the codec
InitCodec ==
    /\ ClientEndpoint_new
    /\ ServerStreamTransport_new
    /\ ClientStreamTransport_new
    /\ HTTPClientTransport_new
    /\ codecOp = "none"
    /\ codecOut = NoValue
    /\ \/ codecIn \in { [kind |-> "Request", x |-> r] : r \in Requests }
       \/ codecIn \in { [kind |-> "Params", x |-> p] : p \in ParamsValues }
       \/ codecIn \in { [kind |-> "Response", x |-> r] : r \in Responses }
       \/ codecIn \in { [kind |-> "Error", x |-> e] : e \in Errors }
       \/ codecIn \in { [kind |-> "Map", x |-> m] : m \in ResponseMaps }
       \/ codecIn \in { [kind |-> "ParamsJson", x |-> j] : j \in ParamsJsons }
       \/ codecIn \in { [kind |-> "RequestJson", x |-> j] : j \in RequestJsons }
       \/ codecIn \in { [kind |-> "ErrorKind", x |-> k] : k \in ErrorKind }

\* Request::from_json(request.to_json())
Request_round_trip ==
    /\ codecOp = "none"
    /\ codecIn.kind = "Request"
    /\ codecOp' = "Request_round_trip"
    /\ codecOut' = Request_from_json(Request_to_json(codecIn.x))
    /\ UNCHANGED <<codecIn, clientVars, serverVars, transportVars>>

\* Params::from_json(params.to_json())
Params_round_trip ==
    /\ codecOp = "none"
    /\ codecIn.kind = "Params"
    /\ codecOp' = "Params_round_trip"
    /\ codecOut' = Params_from_json(Params_to_json(codecIn.x))
    /\ UNCHANGED <<codecIn, clientVars, serverVars, transportVars>>

\* Response::from_json of the object response.to_json() returns
Response_round_trip ==
    /\ codecOp = "none"
    /\ codecIn.kind = "Response"
    /\ codecOp' = "Response_round_trip"
    /\ codecOut' = Response_from_json(Response_to_json(codecIn.x).o)
    /\ UNCHANGED <<codecIn, clientVars, serverVars, transportVars>>

\* Error::from_json(error.to_json())
Error_round_trip ==
    /\ codecOp = "none"
    /\ codecIn.kind = "Error"
    /\ codecOp' = "Error_round_trip"
    /\ codecOut' = Error_from_json(Error_to_json(codecIn.x))
    /\ UNCHANGED <<codecIn, clientVars, serverVars, transportVars>>

\* Response::from_json(map)
Response_decode ==
    /\ codecOp = "none"
    /\ codecIn.kind = "Map"
    /\ codecOp' = "Response_decode"
    /\ codecOut' = Response_from_json(codecIn.x)
    /\ UNCHANGED <<codecIn, clientVars, serverVars, transportVars>>

\* Params::from_json(json)
Params_decode ==
    /\ codecOp = "none"
    /\ codecIn.kind = "ParamsJson"
    /\ codecOp' = "Params_decode"
    /\ codecOut' = Params_from_json(codecIn.x)
    /\ UNCHANGED <<codecIn, clientVars, serverVars, transportVars>>

\* Request::from_json(json)
Request_decode ==
    /\ codecOp = "none"
    /\ codecIn.kind = "RequestJson"
    /\ codecOp' = "Request_decode"
    /\ codecOut' = Request_from_json(codecIn.x)
    /\ UNCHANGED <<codecIn, clientVars, serverVars, transportVars>>

\* request.to_json()
Request_encode ==
    /\ codecOp = "none"
    /\ codecIn.kind = "Request"
    /\ codecOp' = "Request_encode"
    /\ codecOut' = Request_to_json(codecIn.x)
    /\ UNCHANGED <<codecIn, clientVars, serverVars, transportVars>>

\* response.to_json()
Response_encode ==
    /\ codecOp = "none"
    /\ codecIn.kind = "Response"
    /\ codecOp' = "Response_encode"
    /\ codecOut' = Response_to_json(codecIn.x)
    /\ UNCHANGED <<codecIn, clientVars, serverVars, transportVars>>

\* TransportError::from(io_err)
TransportError_convert ==
    /\ codecOp = "none"
    /\ codecIn.kind = "ErrorKind"
    /\ codecOp' = "TransportError_convert"
    /\ codecOut' = TransportError_from(codecIn.x)
    /\ UNCHANGED <<codecIn, clientVars, serverVars, transportVars>>

NextCodec ==
    \/ Request_round_trip
    \/ Params_round_trip
    \/ Response_round_trip
    \/ Error_round_trip
    \/ Response_decode
    \/ Params_decode
    \/ Request_decode
    \/ Request_encode
    \/ Response_encode
    \/ TransportError_convert

SpecCodec == InitCodec /\ [][NextCodec]_vars

(* ------------------ the client's stream transport reader --------------- *)
\* ClientStreamTransport::set_payload_handler: the handler is sent to the reader
set_payload_handler ==
    /\ transportPc = "new"
    /\ transportPc' = "done"
    /\ handler_rx' = IF lrPc = "returned" THEN handler_rx
                     ELSE Append(handler_rx, "StreamPayloadHandler")
    /\ UNCHANGED <<lr_handler, lrPc, lrLine, nLines, lrLog>>
    /\ UNCHANGED <<clientVars, serverVars, codecVars, httpVars>>

\* LineReader::run: lines.next() returns a line, an io::Error or None
LineReader_next(next) ==
    /\ lrPc = "next"
    /\ nLines < MaxLines
    /\ nLines' = nLines + 1
    /\ IF "eof" \notin DOMAIN next /\ next.ok
       THEN /\ lrPc' = "handle_line"
            /\ lrLine' = Some(next.v)
            /\ UNCHANGED lrLog
       ELSE \* "Failed to read line, exiting"
            /\ lrPc' = "returned"
            /\ lrLog' = Append(lrLog, [next |-> next, passed |-> FALSE])
            /\ UNCHANGED lrLine
    /\ UNCHANGED <<transportPc, handler_rx, lr_handler>>
    /\ UNCHANGED <<clientVars, serverVars, codecVars, httpVars>>

\* LineReader::handle_line: update_payload_handler, then the handler gets the line
handle_line ==
    /\ lrPc = "handle_line"
    /\ lr_handler' = IF handler_rx # <<>> THEN Some(Head(handler_rx)) ELSE lr_handler
    /\ handler_rx' = IF handler_rx # <<>> THEN Tail(handler_rx) ELSE handler_rx
    /\ lrLog' = Append(lrLog, [next |-> Ok(lrLine.v), passed |-> lr_handler'.some])
    /\ lrLine' = None
    /\ lrPc' = "next"
    /\ UNCHANGED <<transportPc, nLines>>
    /\ UNCHANGED <<clientVars, serverVars, codecVars, httpVars>>

NextLineReader ==
    \/ set_payload_handler
    \/ \E next \in { Ok(l) : l \in InboundOk } \cup { Err(k) : k \in ErrorKind } \cup { EndOfInput } :
          LineReader_next(next)
    \/ handle_line

SpecLineReader == Init /\ [][NextLineReader]_vars

(* ---------------------- the HTTP client transport ---------------------- *)
\* HTTPClientTransport::set_payload_handler
HTTPClientTransport_set_payload_handler ==
    /\ ~payload_handler.some
    /\ payload_handler' = Some("handler")
    /\ UNCHANGED <<requestors, handlerMutex, received, sendReturns>>
    /\ UNCHANGED <<clientVars, serverVars, codecVars, lineReaderVars>>

\* HTTPClientTransport::send: a Requestor thread is spawned when a handler is set
HTTPClientTransport_send ==
    /\ Len(sendReturns) < MaxSends
    /\ IF payload_handler.some
       THEN /\ requestors' = Append(requestors, [pc |-> "run", result |-> None])
            /\ sendReturns' = Append(sendReturns, "Ok")
       ELSE /\ sendReturns' = Append(sendReturns, "MissingCallback")
            /\ UNCHANGED requestors
    /\ UNCHANGED <<payload_handler, handlerMutex, received>>
    /\ UNCHANGED <<clientVars, serverVars, codecVars, lineReaderVars>>

\* how an HTTP exchange can end: the body is read, reading the body fails
\* with an io::Error, or the request fails (bad URI, io::Error, anything else)
Exchanges ==
    { [end |-> "body", text |-> t] : t \in { to_string(SuccessJson(JNum(0))), Garbage } }
    \cup { [end |-> "read_failed", kind |-> k] : k \in ErrorKind }
    \cup { [end |-> "Uri"], [end |-> "Other"] }
    \cup { [end |-> "Io", kind |-> k] : k \in ErrorKind }

\* Requestor::run: what the handler is called with for this end of the exchange
handler_argument(exchange) ==
    IF exchange.end = "body" THEN Ok(exchange.text)
    ELSE IF exchange.end = "read_failed" THEN Err(TransportError_from(exchange.kind))
    ELSE IF exchange.end = "Uri" THEN Err("NotFound")
    ELSE IF exchange.end = "Io" THEN Err(TransportError_from(exchange.kind))
    ELSE Err("Other")

\* Requestor::run of thread i, up to call_handler
Requestor_run(i, exchange) ==
    /\ i \in 1..Len(requestors)
    /\ requestors[i].pc = "run"
    /\ requestors' = [requestors EXCEPT ![i] = [pc |-> "call_handler",
                                                result |-> Some(handler_argument(exchange))]]
    /\ UNCHANGED <<payload_handler, handlerMutex, received, sendReturns>>
    /\ UNCHANGED <<clientVars, serverVars, codecVars, lineReaderVars>>

\* a variant that hands the mutex out while it is held
mutex_available_always(mutex) == TRUE

\* Mutex::lock returns when no thread holds the mutex
mutex_available(mutex) == mutex = 0

\* Requestor::call_handler of thread i: the mutex is taken, payload_received is called
Requestor_call_handler(i) ==
    /\ i \in 1..Len(requestors)
    /\ requestors[i].pc = "call_handler"
    /\ mutex_available(handlerMutex)
    /\ handlerMutex' = i
    /\ requestors' = [requestors EXCEPT ![i].pc = "payload_received"]
    /\ received' = Append(received, [requestor |-> i, result |-> requestors[i].result.v,
                                     returned |-> FALSE])
    /\ UNCHANGED <<payload_handler, sendReturns>>
    /\ UNCHANGED <<clientVars, serverVars, codecVars, lineReaderVars>>

\* payload_received returns in thread i, the guard is dropped and the thread ends
Requestor_handler_returns(i) ==
    /\ i \in 1..Len(requestors)
    /\ requestors[i].pc = "payload_received"
    /\ requestors' = [requestors EXCEPT ![i].pc = "done"]
    /\ received' = [k \in 1..Len(received) |->
                       IF received[k].requestor = i
                       THEN [received[k] EXCEPT !.returned = TRUE] ELSE received[k]]
    /\ handlerMutex' = 0
    /\ UNCHANGED <<payload_handler, sendReturns>>
    /\ UNCHANGED <<clientVars, serverVars, codecVars, lineReaderVars>>

NextHttp ==
    \/ HTTPClientTransport_set_payload_handler
    \/ HTTPClientTransport_send
    \/ \E i \in 1..MaxSends, exchange \in Exchanges : Requestor_run(i, exchange)
    \/ \E i \in 1..MaxSends : Requestor_call_handler(i)
    \/ \E i \in 1..MaxSends : Requestor_handler_returns(i)

SpecHttp == Init /\ [][NextHttp]_vars

(* ------------------------------ properties ---------------------------- *)
\* handle_response_with_id has locked the table and looked the id up
TakeStep == dPc = "lock" /\ dPc' # "lock"
\* response_received has run
InvokeStep == dPc = "handler" /\ dPc' # "handler"
\* a call has returned
ReturnStep == Len(results') = Len(results) + 1
Returned == results'[Len(results')]
\* the handler h was passed to the send_request call that was given id k
RegisteredFor(k, h) ==
    \/ \E j \in 1..Len(results) : results[j].id = Some(k) /\ results[j].op = h.op
    \/ call.id = Some(k) /\ call.op = h.op
InvokedIds == { invoked[i].id : i \in 1..Len(invoked) }

\* C1: a response delivered for a pending id k takes exactly the entry of k
\* out of the table and invokes exactly that handler, the one registered by
\* the call that was given id k, once; every other entry stays as it was.
C1_Step ==
    /\ (TakeStep /\ dCur.id \in DOMAIN handlers) =>
          /\ DOMAIN handlers' = (DOMAIN handlers) \ {dCur.id}
          /\ \A j \in DOMAIN handlers' : handlers'[j] = handlers[j]
          /\ dPc' = "handler"
          /\ dCur'.id = dCur.id
          /\ dCur'.handler = Some(handlers[dCur.id])
          /\ invoked' = invoked
    /\ InvokeStep =>
          /\ Len(invoked') = Len(invoked) + 1
          /\ SubSeq(invoked', 1, Len(invoked)) = invoked
          /\ invoked'[Len(invoked')].id = dCur.id
          /\ invoked'[Len(invoked')].handler = dCur.handler.v
          /\ RegisteredFor(dCur.id, dCur.handler.v)
          /\ handlers' = handlers
    /\ (~TakeStep /\ ~InvokeStep) => invoked' = invoked
C1_DeliveryInvokesItsHandlerOnly == [][C1_Step]_vars
\* two calls are pending, the response of one was delivered to its handler,
\* the other is still in the table
C1_Witness ==
    \E i \in 1..Len(invoked) : \E j \in DOMAIN handlers :
        /\ j # invoked[i].id
        /\ invoked[i].outcome = "called"

\* C2: no id is ever registered twice and no id's handler is ever invoked
\* twice, duplicates of a response included.
C2_AtMostOneHandlerAtMostOnce ==
    \A k \in DOMAIN registered :
        /\ registered[k] <= 1
        /\ Cardinality({ i \in 1..Len(invoked) : invoked[i].id = k }) <= 1
\* the handler of k has been invoked and a second response with id k is on
\* the delivery path
C2_Witness ==
    /\ dPc = "lock"
    /\ dCur.id \in InvokedIds
    /\ lock = "free"

\* C3: the first response to a request the transport accepted always finds
\* the entry of its id in the table.
C3_Step ==
    (TakeStep /\ dCur.id \in Transported /\ dCur.id \notin seen) => dCur.id \in DOMAIN handlers
C3_EntryExistsWhenResponseArrives == [][C3_Step]_vars

\* C4: a send_request whose send fails leaves the table as it was, and its id
\* stays consumed: ids only grow from call to call.
IdsNeverReused ==
    /\ \A i, j \in 1..Len(results) :
          (i < j /\ results[i].id.some /\ results[j].id.some) => results[i].id.v < results[j].id.v
    /\ \A i \in 1..Len(results) :
          (call.id.some /\ results[i].id.some) => results[i].id.v < call.id.v
    /\ \A i \in 1..Len(results) : results[i].id.some => results[i].id.v < next_id
C4_Step ==
    /\ (/\ ReturnStep
        /\ Returned.api \in {"send_request", "send_request_sync"}
        /\ Returned.res \in {"EncodeError", "EndOfFile"}) =>
          /\ handlers' = handlers
          /\ registered' = registered
          /\ Returned.id = Some(next_id)
          /\ next_id' = next_id + 1
          /\ callerPc' = "idle"
    /\ IdsNeverReused'
C4_FailedSendRegistersNothing == [][C4_Step]_vars
\* a call failed, a later call succeeded under a larger id and only the
\* later one is in the table
C4_Witness ==
    \E i, j \in 1..Len(results) :
        /\ i < j
        /\ results[i].api = "send_request"
        /\ results[i].res \in {"EncodeError", "EndOfFile"}
        /\ results[j].api = "send_request"
        /\ results[j].res = "Ok"
        /\ results[j].id.v \in DOMAIN handlers
        /\ results[i].id.v \notin DOMAIN handlers

\* C5: send_notification, succeeding or failing, leaves the table and the id
\* counter as they were, and what it submits has no id field.
C5_Step ==
    (ReturnStep /\ Returned.api = "send_notification") =>
        /\ handlers' = handlers
        /\ registered' = registered
        /\ next_id' = next_id
        /\ Returned.id = None
        /\ IF Returned.res = "Ok"
           THEN /\ Len(send_channel') = Len(send_channel) + 1
                /\ SubSeq(send_channel', 1, Len(send_channel)) = send_channel
                /\ "id" \notin DOMAIN send_channel'[Len(send_channel')].v.o
           ELSE send_channel' = send_channel
Discarded == { k \in seen : k \notin InvokedIds /\ ~(dPc = "handler" /\ dCur.id = k) }
\* C6: a response whose id is not in the table changes nothing and leaves the
\* delivery thread ready; a response delivered after it whose id is pending
\* still gets its handler.
C6_Step ==
    /\ (TakeStep /\ dCur.id \notin DOMAIN handlers) =>
          /\ handlers' = handlers
          /\ invoked' = invoked
          /\ conduit' = conduit
          /\ dPc' = "idle"
          /\ lock' = "free"
    /\ (TakeStep /\ dCur.id \in DOMAIN handlers /\ Discarded # {}) =>
          /\ dPc' = "handler"
          /\ dCur'.handler = Some(handlers[dCur.id])
    /\ (InvokeStep /\ Discarded # {}) => dCur.id \in { invoked'[i].id : i \in 1..Len(invoked') }
C6_UnknownIdIsDiscarded == [][C6_Step]_vars
\* a response was discarded and a later one has found its handler
C6_Witness ==
    /\ dPc = "handler"
    /\ \E k \in seen : k # dCur.id /\ k \notin InvokedIds

\* C7: the table's lock is not held while a handler runs.
C7_LockReleasedBeforeHandler == (dPc = "handler") => (lock = "free")

\* C8: the writer hands payloads to the transport in the order they were
\* submitted to the outbound channel.
Sent == [i \in 1..Len(transportLog) |-> transportLog[i].payload]
InFlight == IF writerCur.some THEN <<writerCur.v>> ELSE <<>>
IsPrefix(a, b) == Len(a) <= Len(b) /\ \A i \in 1..Len(a) : a[i] = b[i]
C8_OutboundFifo ==
    /\ IsPrefix(Sent \o InFlight, submitted)
    /\ rxAlive => (Sent \o InFlight \o send_channel = submitted)
\* a call and a notification have both been handed to the transport
C8_Witness ==
    /\ Len(transportLog) >= 2
    /\ transportLog[1].payload # transportLog[2].payload

\* C9: a send_request_sync whose response the transport delivered before the
\* deadline returns that response.
C9_SyncReturnsEarlyResponse ==
    \A i \in 1..Len(results) :
        (results[i].api = "send_request_sync" /\ results[i].early) =>
            /\ results[i].res = "Response"
            /\ as_u64(results[i].response.v.id.v) = results[i].id

\* the one-shot handler in the entry of k belongs to a call that has returned
Abandoned(k) ==
    /\ k \in DOMAIN handlers
    /\ handlers[k].kind = "oneshot"
    /\ ~(call.api = "send_request_sync" /\ call.op = handlers[k].op)
\* C10: timing out removes nothing from the table; the entry of a timed-out
\* call leaves the table only when a response with its id is delivered, and
\* the one-shot handler then drops that response.
C10_Step ==
    /\ (ReturnStep /\ Returned.res = "TimedOut") => handlers' = handlers
    /\ \A k \in DOMAIN handlers :
          Abandoned(k) =>
             IF k \in DOMAIN handlers'
             THEN handlers'[k] = handlers[k]
             ELSE /\ TakeStep
                  /\ dCur.id = k
                  /\ dCur'.handler = Some(handlers[k])
    /\ (/\ InvokeStep
        /\ dCur.handler.v.kind = "oneshot"
        /\ ~(call.api = "send_request_sync" /\ call.op = dCur.handler.v.op)) =>
          /\ invoked'[Len(invoked')].outcome = "hung_up"
          /\ conduit' = conduit
          /\ results' = results
C10_TimeoutKeepsEntry == [][C10_Step]_vars
\* a synchronous call timed out and a late response was then delivered to
\* its one-shot handler, which dropped it
C10_Witness ==
    \E i \in 1..Len(invoked) : \E j \in 1..Len(results) :
        /\ invoked[i].outcome = "hung_up"
        /\ results[j].res = "TimedOut"
        /\ results[j].id = Some(invoked[i].id)
        /\ invoked[i].id \notin DOMAIN handlers


\* what the transport reports is an error, or a payload that is not JSON, not
\* a JSON object, not a Response, or a Response whose id is not an unsigned
\* integer
Malformed(result) ==
    \/ ~result.ok
    \/ ~result.text.wf
    \/ result.text.v.t # "obj"
    \/ "id" \notin DOMAIN result.text.v.o
    \/ result.text.v.o["id"].t # "num"
    \/ result.text.v.o["id"].n < 0
    \/ ~Response_from_json(result.text.v.o).ok

\* the results of that kind among those the transport reports
MalformedResults == { r \in Inbound : Malformed(r) }

\* C11: on the client delivery path a transport error, and a payload that is
\* not valid JSON, not a valid Response, or whose id is missing or not an
\* unsigned integer (a string, null, a negative number), is dropped: no
\* handler is invoked, the pending table is unchanged, and the delivery thread
\* is ready for the next payload.
C11_Step ==
    (nDeliv' # nDeliv) =>
        \/ /\ handlers' = handlers
           /\ invoked' = invoked
           /\ seen' = seen
           /\ lock' = lock
           /\ dPc' = "idle"
        \/ \A result \in MalformedResults : ~payload_received(result)
C11_MalformedPayloadIsDropped == [][C11_Step]_vars

\* the first payload was dropped before any lookup and the second one has
\* reached its handler
C11_Witness ==
    /\ nDeliv = 2
    /\ dPc = "handler"
    /\ seen = {dCur.id}
    /\ invoked = <<>>

(* ----------------------- properties of the server ---------------------- *)
\* the calls of the handler made for the i-th line handed to handle_read_line
HandledFor(i) == { j \in 1..Len(handled) : handled[j].frame = i }
\* the line is JSON text that Request::from_json accepts
DecodesToRequest(line) == line.wf /\ Request_from_json(line.v).ok
\* the JSON of an error without data
ErrorObject(code, message) == Object2("code", JNum(code), "message", JStr(message))
\* the reply to a call with this id whose handler returned result
ReplyTo(id, result) ==
    IF result.ok
    THEN Object3("jsonrpc", JStr("2.0"), "id", id, "result", result.v)
    ELSE Object3("jsonrpc", JStr("2.0"), "id", id, "error",
                 ErrorObject(result.e.code, result.e.message))

\* C12: for every line the Responder is given that decodes to a Request with
\* an id, the call handler is invoked exactly once and the notification
\* handler not at all, and the reply carries the id of the request and the
\* handler's Ok value as "result" or its Err value as "error".
C12_CallIsHandledOnceAndAnswered ==
    \A i \in 1..Len(frames) :
        (/\ frames[i].delivered
         /\ DecodesToRequest(frames[i].line)
         /\ "id" \in DOMAIN frames[i].line.v.o)
        => /\ Cardinality(HandledFor(i)) = 1
           /\ \A j \in HandledFor(i) :
                /\ handled[j].called = "handle_request"
                /\ handled[j].returned
                /\ frames[i].reply =
                     Some(to_string(ReplyTo(frames[i].line.v.o["id"], handled[j].result.v)))

\* the call "add" with id 1 got the reply {"jsonrpc":"2.0","id":1,"result":3},
\* and it was written
C12_Witness ==
    /\ Len(frames) = 1
    /\ frames[1].line \in CallLines
    /\ frames[1].reply =
         Some(to_string(Object3("jsonrpc", JStr("2.0"), "id", JNum(1), "result", JNum(3))))
    /\ Len(handled) = 1
    /\ output = <<frames[1].reply.v>>

\* C13: for every line the Responder is given that decodes to a Request
\* without id, the notification handler is invoked exactly once, the call
\* handler never, and there is no reply.
C13_NotificationIsHandledOnceUnanswered ==
    \A i \in 1..Len(frames) :
        (/\ frames[i].delivered
         /\ DecodesToRequest(frames[i].line)
         /\ "id" \notin DOMAIN frames[i].line.v.o)
        => /\ Cardinality(HandledFor(i)) = 1
           /\ \A j \in HandledFor(i) :
                handled[j].called = "handle_notification" /\ handled[j].returned
           /\ frames[i].reply = None

\* a notification was handled, and nothing was written for it
C13_Witness ==
    /\ Len(frames) = 1
    /\ frames[1].line \in NotificationLines
    /\ frames[1].delivered
    /\ Len(handled) = 1
    /\ readerPc = "try_recv"
    /\ output = <<>>

\* the JSON value of a reply
ReplyJson(reply) == reply.v.v.o
\* the reply is an error response with this code
IsErrorReply(reply, code) ==
    /\ reply.some
    /\ reply.v.wf
    /\ reply.v.v.t = "obj"
    /\ DOMAIN ReplyJson(reply) = {"jsonrpc", "id", "error"}
    /\ ReplyJson(reply)["error"].t = "obj"
    /\ "code" \in DOMAIN ReplyJson(reply)["error"].o
    /\ ReplyJson(reply)["error"].o["code"] = JNum(code)

\* C14: a line the Responder is given that is not JSON text gets a reply
\* with error code -32700 and id null, and no handler is invoked.
C14_UnparsableTextGetsParseError ==
    \A i \in 1..Len(frames) :
        (frames[i].delivered /\ ~frames[i].line.wf)
        => /\ HandledFor(i) = {}
           /\ IsErrorReply(frames[i].reply, -32700)
           /\ ReplyJson(frames[i].reply)["id"] = JNull

\* text that is not JSON was answered and the answer was written
C14_Witness ==
    /\ Len(frames) = 1
    /\ frames[1].delivered
    /\ frames[1].line = Garbage
    /\ handled = <<>>
    /\ output = <<frames[1].reply.v>>

\* the id the inbound JSON carries, null when it carries none
RawId(json) == IF json.t = "obj" /\ "id" \in DOMAIN json.o THEN json.o["id"] ELSE JNull

\* the JSON is no Request: not an object, "method" missing or not a string,
\* or "params" present and neither an object nor an array
NoRequest(json) ==
    \/ json.t # "obj"
    \/ "method" \notin DOMAIN json.o
    \/ json.o["method"].t # "str"
    \/ ("params" \in DOMAIN json.o /\ json.o["params"].t \notin {"obj", "arr"})

\* C15: a line the Responder is given that is JSON but no Request invokes no
\* handler and always gets a reply, with error code -32600; the reply's id is
\* the id member of the inbound object when it has one, null otherwise.
C15_InvalidRequestGetsReplyWithRawId ==
    \A i \in 1..Len(frames) :
        (frames[i].delivered /\ frames[i].line.wf /\ NoRequest(frames[i].line.v))
        => /\ HandledFor(i) = {}
           /\ IsErrorReply(frames[i].reply, -32600)
           /\ ReplyJson(frames[i].reply)["id"] = RawId(frames[i].line.v)

\* an object with a number for "method" and the id "b" was answered with id "b"
C15_Witness ==
    /\ Len(frames) = 1
    /\ frames[1].delivered
    /\ frames[1].line.wf
    /\ NoRequest(frames[1].line.v)
    /\ RawId(frames[1].line.v) = JStr("b")
    /\ ReplyJson(frames[1].reply)["id"] = JStr("b")
    /\ output = <<frames[1].reply.v>>

\* a is b with some elements left out
RECURSIVE IsSubsequence(_, _)
IsSubsequence(a, b) ==
    IF a = <<>> THEN TRUE
    ELSE IF b = <<>> THEN FALSE
    ELSE IF Head(a) = Head(b) THEN IsSubsequence(Tail(a), Tail(b))
    ELSE IsSubsequence(a, Tail(b))

\* the replies handle_read_line has returned, in the order of the lines
Replies == [i \in 1..Len(SelectSeq(frames, LAMBDA f : f.reply.some)) |->
                SelectSeq(frames, LAMBDA f : f.reply.some)[i].reply.v]
\* the calls of the handler that have not returned
Running == { j \in 1..Len(handled) : ~handled[j].returned }

\* C16: the reader of the server stream transport works on one line at a
\* time: it reads the next line only when the handler has returned and the
\* reply of the line before is written or given up, at most one call of the
\* handler runs at any time, the calls are made in the order of the lines, and
\* the replies are written in the order the lines were read.
C16_OneFrameAtATime ==
    /\ Cardinality(Running) <= 1
    /\ Running # {} => (readerPc = "handler" /\ Running = {Len(handled)})
    /\ readerPc \in {"try_recv", "next"} => (Running = {} /\ readerCur = NoLine)
    /\ readerPc = "handle_read_line" => (Running = {} /\ Len(frames) < nRead)
    /\ Len(frames) <= nRead
    /\ \A j, k \in 1..Len(handled) : j < k => handled[j].frame < handled[k].frame
    /\ IsSubsequence(output, Replies)

\* two calls with different ids were read, handled and answered one after the other
C16_Witness ==
    /\ Len(handled) = 2
    /\ Len(output) = 2
    /\ output[1] # output[2]
    /\ output = Replies

(* ----------------------- properties of the codec ----------------------- *)
\* C17: decoding the encoding of a Request gives the Request back, whether
\* params is absent, Named or Positional and whether id is absent or present;
\* decoding the encoding of a Params gives the Params back, for both variants.
C17_RequestRoundTrip ==
    /\ codecOp = "Request_round_trip" => codecOut = Ok(codecIn.x)
    /\ codecOp = "Params_round_trip" => codecOut = Ok(codecIn.x)

\* a notification with named parameters came back from the round trip
C17_Witness ==
    /\ codecOp = "Request_round_trip"
    /\ codecIn.x.params = Some(Named([k \in {"a"} |-> JNum(1)]))
    /\ codecIn.x.id = None
    /\ codecOut.ok
    /\ codecOut.v.id = None

\* C18: decoding the encoding of a Response succeeds and gives the Response
\* back, with the same payload (success or error) and the same id.
C18_ResponseRoundTrip ==
    codecOp = "Response_round_trip" => codecOut = Ok(codecIn.x)

\* C19: decoding the encoding of an Error succeeds and gives the same code,
\* message and data; an object with an integer "code" and a string "message"
\* is all that decoding needs.
C19_ErrorRoundTrip ==
    codecOp = "Error_round_trip" => codecOut = Ok(codecIn.x)

\* Error::invalid_request as the decoder's failure
InvalidRequest == Err([code |-> -32600, message |-> "Invalid request", data |-> None])

\* C20: Response::from_json fails with invalid_request when the map has no
\* "id" (a null id is accepted) and when it has both or neither of "result"
\* and "error"; with only "result" it succeeds with that value as the success
\* payload; with only "error" whose value decodes as an Error it succeeds with
\* that Error as the error payload.  The id of the Response is the id member.
C20_ResponseDecode ==
    codecOp = "Response_decode" =>
        LET map == codecIn.x
            has_id == "id" \in DOMAIN map
            has_result == "result" \in DOMAIN map
            has_error == "error" \in DOMAIN map
        IN  /\ ~has_id => codecOut = InvalidRequest
            /\ (has_result <=> has_error) => codecOut = InvalidRequest
            /\ (has_id /\ has_result /\ ~has_error)
                 => codecOut = Ok([payload |-> Ok(map["result"]), id |-> Some(map["id"])])
            /\ (has_id /\ ~has_result /\ has_error /\ Error_from_json(map["error"]).ok)
                 => codecOut = Ok([payload |-> Err(Error_from_json(map["error"]).v),
                                   id |-> Some(map["id"])])

\* an object with a null id and only "result" was decoded to a success payload
C20_Witness ==
    /\ codecOp = "Response_decode"
    /\ DOMAIN codecIn.x = {"jsonrpc", "id", "result"}
    /\ codecIn.x["id"] = JNull
    /\ codecOut.ok
    /\ codecOut.v.payload = Ok(JNum(3))
    /\ codecOut.v.id = Some(JNull)

\* C21: Params::from_json maps every JSON object to Named with the same
\* members and every JSON array to Positional with the same elements in the
\* same order, and fails with invalid_request for every other JSON value.
C21_ParamsDecode ==
    codecOp = "Params_decode" =>
        /\ codecIn.x.t = "obj" =>
             /\ codecOut.ok
             /\ codecOut.v.named
             /\ DOMAIN codecOut.v.map = DOMAIN codecIn.x.o
             /\ \A k \in DOMAIN codecIn.x.o : codecOut.v.map[k] = codecIn.x.o[k]
        /\ codecIn.x.t = "arr" =>
             /\ codecOut.ok
             /\ ~codecOut.v.named
             /\ Len(codecOut.v.vec) = Len(codecIn.x.a)
             /\ \A i \in 1..Len(codecIn.x.a) : codecOut.v.vec[i] = codecIn.x.a[i]
        /\ codecIn.x.t \notin {"obj", "arr"} => codecOut = InvalidRequest

\* an array of two different elements was decoded to Positional in the same order
C21_Witness ==
    /\ codecOp = "Params_decode"
    /\ codecIn.x = JArr(<<JNum(1), JStr("x")>>)
    /\ codecOut.ok
    /\ codecOut.v.vec = <<JNum(1), JStr("x")>>

\* C22: Request::from_json succeeds exactly when the JSON is an object with
\* a string "method" and, if "params" is present, params that are an object
\* or an array; the decoded id is the "id" member copied as it is, whatever
\* its type (a null id is an id), and is absent only when the object has no
\* "id"; every failure is invalid_request.
C22_RequestDecode ==
    codecOp = "Request_decode" =>
        IF ~NoRequest(codecIn.x)
        THEN /\ codecOut.ok
             /\ codecOut.v.method = codecIn.x.o["method"].s
             /\ codecOut.v.params.some <=> "params" \in DOMAIN codecIn.x.o
             /\ codecOut.v.id.some <=> "id" \in DOMAIN codecIn.x.o
             /\ codecOut.v.id.some => codecOut.v.id.v = codecIn.x.o["id"]
        ELSE codecOut = InvalidRequest

\* an object with a null id was decoded to a Request with the id null
C22_Witness ==
    /\ codecOp = "Request_decode"
    /\ codecOut.ok
    /\ "id" \in DOMAIN codecIn.x.o
    /\ codecIn.x.o["id"] = JNull
    /\ codecOut.v.id = Some(JNull)
    /\ codecOut.v.params.some

\* C23: an encoded Request has "jsonrpc": "2.0" and "method", has "params"
\* exactly when the Request has params and "id" exactly when it has an id; an
\* encoded Response has "jsonrpc": "2.0", always has "id" (null when the
\* Response has no id) and has exactly one of "result" and "error".
C23_EncodedFields ==
    /\ codecOp = "Request_encode" =>
         /\ codecOut.t = "obj"
         /\ DOMAIN codecOut.o = {"jsonrpc", "method"}
                \cup (IF codecIn.x.params.some THEN {"params"} ELSE {})
                \cup (IF codecIn.x.id.some THEN {"id"} ELSE {})
         /\ codecOut.o["jsonrpc"] = JStr("2.0")
         /\ codecOut.o["method"] = JStr(codecIn.x.method)
         /\ codecIn.x.id.some => codecOut.o["id"] = codecIn.x.id.v
    /\ codecOp = "Response_encode" =>
         /\ codecOut.t = "obj"
         /\ DOMAIN codecOut.o = {"jsonrpc", "id"}
                \cup (IF codecIn.x.payload.ok THEN {"result"} ELSE {"error"})
         /\ codecOut.o["jsonrpc"] = JStr("2.0")
         /\ codecOut.o["id"] = IF codecIn.x.id.some THEN codecIn.x.id.v ELSE JNull

\* a Response without id was encoded with "id": null and an "error" member
C23_Witness ==
    /\ codecOp = "Response_encode"
    /\ codecIn.x.id = None
    /\ ~codecIn.x.payload.ok
    /\ codecOut.o["id"] = JNull
    /\ "error" \in DOMAIN codecOut.o

\* C24 (as stated): connection-refused, connection-reset, connection-aborted
\* and broken-pipe become end-of-file; timed-out, would-block and write-zero
\* become timed-out; interrupted becomes interrupted; every other kind is
\* passed through as the I/O error category.
C24_ErrorKindMapping ==
    codecOp = "TransportError_convert" =>
        codecOut =
            IF codecIn.x \in {"ConnectionRefused", "ConnectionReset", "ConnectionAborted",
                              "BrokenPipe"} THEN "EndOfFile"
            ELSE IF codecIn.x \in {"TimedOut", "WouldBlock", "WriteZero"} THEN "TimedOut"
            ELSE IF codecIn.x = "Interrupted" THEN "Interrupted"
            ELSE "IOError"

\* C24 (amended): not-found, permission-denied, not-connected, address-in-use
\* and address-not-available become end-of-file too, beside connection-refused,
\* connection-reset, connection-aborted and broken-pipe; timed-out, would-block
\* and write-zero become timed-out; interrupted becomes interrupted; only the
\* kinds that remain are passed through as the I/O error category.
C24_ErrorKindMappingAmended ==
    codecOp = "TransportError_convert" =>
        codecOut =
            IF codecIn.x \in {"ConnectionRefused", "ConnectionReset", "ConnectionAborted",
                              "BrokenPipe", "NotFound", "PermissionDenied", "NotConnected",
                              "AddrInUse", "AddrNotAvailable"} THEN "EndOfFile"
            ELSE IF codecIn.x \in {"TimedOut", "WouldBlock", "WriteZero"} THEN "TimedOut"
            ELSE IF codecIn.x = "Interrupted" THEN "Interrupted"
            ELSE "IOError"

\* a not-found error was converted to end-of-file
C24_Witness ==
    /\ codecOp = "TransportError_convert"
    /\ codecIn.x = "NotFound"
    /\ codecOut = "EndOfFile"

\* C30: once set_callback has returned, every line read from the input is
\* passed to the callback: no line read after that is passed over.
C30_LineReadAfterSetCallbackIsHandled ==
    \A i \in 1..Len(frames) : frames[i].installed => frames[i].delivered

(* ------------------- properties of the read loops ---------------------- *)
\* the TransportError of what lines.next() returned when it is no line
ReadError(next) == IF "eof" \in DOMAIN next THEN "EndOfFile" ELSE TransportError_from(next.e)
\* the errors the specification calls transient for a read loop
TransientForLoop == {"TimedOut", "Interrupted", "ParseError"}

\* the server's read loop: an error on reading a line or writing a reply
\* sends the reader back to the top of its loop when it is transient and ends
\* the thread when it is not, and a thread that has ended does nothing more
ServerLoopStep ==
    /\ \A next \in ReadResults :
         (lines_next(next) /\ ~line_result_of(next).ok)
            => readerPc' = IF ReadError(next) \in TransientForLoop THEN "try_recv"
                                                                   ELSE "panicked"
    /\ \A res \in ErrorKind :
         send_response(res)
            => readerPc' = IF TransportError_from(res) \in TransientForLoop THEN "try_recv"
                                                                            ELSE "panicked"
    /\ readerPc = "panicked" => UNCHANGED <<readerPc, nRead, frames, handled, output>>
ServerLoopSkipsTransientErrors == [][ServerLoopStep]_vars

\* C25: in a transport read loop a transient error (timed-out, interrupted,
\* parse-error) on reading a frame only skips that frame and the loop goes on
\* to the next one; only another error ends the loop.  Here for the read loop
\* of the client's stream transport: when the loop has ended, the error that
\* ended it was not a transient one.
C25_ReadLoopSkipsTransientErrors ==
    lrPc = "returned" => ReadError(lrLog[Len(lrLog)].next) \notin TransientForLoop

(* ------------------ properties of the HTTP transport ------------------- *)
\* the calls of payload_received made by Requestor thread i
ReceivedFrom(i) == { k \in 1..Len(received) : received[k].requestor = i }
\* the text of a body, or a transport error
IsBodyOrError(result) ==
    \/ result.ok /\ result.v \in { to_string(SuccessJson(JNum(0))), Garbage }
    \/ ~result.ok /\ result.e \in {"EndOfFile", "TimedOut", "Interrupted", "IOError",
                                   "NotFound", "Other"}

\* C26: for each payload send accepted there is one Requestor; it calls the
\* payload callback at most once, and exactly once by the time it is done,
\* with the body text or a transport error, however the exchange ended; and at
\* most one call of the callback is running at any time.
C26_CallbackOncePerExchange ==
    /\ Len(requestors) = Cardinality({ k \in 1..Len(sendReturns) : sendReturns[k] = "Ok" })
    /\ \A i \in 1..Len(requestors) :
         /\ Cardinality(ReceivedFrom(i)) <= 1
         /\ requestors[i].pc \in {"payload_received", "done"}
              => /\ Cardinality(ReceivedFrom(i)) = 1
                 /\ \A k \in ReceivedFrom(i) :
                      /\ received[k].result = requestors[i].result.v
                      /\ IsBodyOrError(received[k].result)
                      /\ received[k].returned <=> requestors[i].pc = "done"
         /\ requestors[i].pc \in {"run", "call_handler"} => ReceivedFrom(i) = {}
    /\ \A k \in 1..Len(received) : received[k].requestor \in 1..Len(requestors)
    /\ Cardinality({ k \in 1..Len(received) : ~received[k].returned }) <= 1

\* two exchanges, one that gave a body and one that failed, each called the
\* callback once, the failed one first
C26_Witness ==
    /\ Len(requestors) = 2
    /\ requestors[1].pc = "done"
    /\ requestors[2].pc = "done"
    /\ Len(received) = 2
    /\ received[1].requestor = 2
    /\ ~received[1].result.ok
    /\ received[2].result.ok

(* ------------------- properties of the id counter ---------------------- *)
\* the calls of send_request, direct or through send_request_sync, that
\* returned before entry k of results
RequestsBefore(k) == { i \in 1..(k - 1) : results[i].id.some }

\* C27: the n-th call of send_request gets the id n - 1, whether its send
\* succeeds or fails, the counter is the number of calls made, and a call that
\* reaches the insertion never finds its id in the table: the assertion in
\* send_request never fails.
C27_IdsCountCallsAndAssertionHolds ==
    /\ \A k \in 1..Len(results) :
         results[k].id.some => results[k].id.v = Cardinality(RequestsBefore(k))
    /\ call.id.some => call.id.v = Cardinality(RequestsBefore(Len(results) + 1))
    /\ next_id = Cardinality(RequestsBefore(Len(results) + 1)) + (IF call.id.some THEN 1 ELSE 0)
    /\ callerPc = "lock" => call.id.v \notin DOMAIN handlers
    /\ callerPc # "panicked"
    /\ lock # "poisoned"

\* the first call failed under id 0, the second is about to insert under id
\* 1, or the first is still pending under 0 when the second is about to
\* insert under 1
C27_Witness ==
    /\ callerPc = "lock"
    /\ call.id = Some(1)
    /\ Len(results) = 1
    /\ results[1].id = Some(0)
    /\ \/ results[1].res \in {"EncodeError", "EndOfFile"}
       \/ 0 \in DOMAIN handlers

(* --------------- properties of the stopped writer thread --------------- *)
\* the writer thread has panicked on a transport error that is not transient
Stopped == writerPc = "panicked"
\* a call of send_request, send_request_sync or send_notification begins
CallStep == nOps' = nOps + 1
\* what holds of the pending table while the writer is stopped: an entry
\* leaves it only when a response with its id is taken by the delivery
\* thread, and only that thread's response_received invokes a handler
EntriesStayUntilDelivered ==
    /\ \A k \in DOMAIN handlers :
          IF k \in DOMAIN handlers'
          THEN handlers'[k] = handlers[k]
          ELSE /\ TakeStep
               /\ dCur.id = k
               /\ dCur'.handler = Some(handlers[k])
    /\ invoked' # invoked =>
          /\ InvokeStep
          /\ invoked'[Len(invoked')].id = dCur.id
          /\ dCur.response.v.id.some
          /\ as_u64(dCur.response.v.id.v) = Some(dCur.id)
\* a call that begins while the writer is stopped returns at once with a
\* result in errors and registers nothing
StoppedCallFailsWith(errors) ==
    (Stopped /\ CallStep) =>
        /\ ReturnStep
        /\ Returned.res \in errors
        /\ callerPc' = "idle"
        /\ handlers' = handlers
        /\ registered' = registered
        /\ send_channel' = send_channel
        /\ submitted' = submitted

\* C29 as stated: once the writer has stopped, every later send_request and
\* send_notification returns end-of-file and registers nothing, and the
\* entries in the table stay until a response with their id is delivered.
C29_Step ==
    /\ StoppedCallFailsWith({"EndOfFile"})
    /\ Stopped => EntriesStayUntilDelivered
C29_StoppedWriterGivesEndOfFile == [][C29_Step]_vars

\* C29 amended: once the writer has stopped, every later send_request and
\* send_notification returns an error, encode-error when the request cannot
\* be serialized and end-of-file otherwise, and registers nothing; the
\* entries in the table stay until a response with their id is delivered.
C29_StepAmended ==
    /\ StoppedCallFailsWith({"EndOfFile", "EncodeError"})
    /\ Stopped => EntriesStayUntilDelivered
C29_StoppedWriterGivesError == [][C29_StepAmended]_vars

\* the transport refused the payload of call 0 for good, the writer stopped,
\* a later call got end-of-file, and the handler of call 0 is still pending
C29_Witness ==
    /\ Stopped
    /\ Len(results) = 2
    /\ results[1].res = "Ok"
    /\ results[1].id = Some(0)
    /\ results[2].res = "EndOfFile"
    /\ 0 \in DOMAIN handlers
    /\ Len(transportLog) = 1
    /\ ~transportLog[1].ok

(* ------------------- properties of the writer thread ------------------- *)
\* the i-th payload submitted was passed to transport.send
Passed(i) == Len(transportLog) >= i /\ transportLog[i].payload = submitted[i]
\* the errors of transport.send the claim calls transient
TransientErrors == {"TimedOut", "Interrupted", "EncodeError"}
\* when transport.send fails with a transient error the writer is back at
\* recv, with the queue and the channel as they were
TransientStep ==
    (writerPc = "send") =>
        \A res \in TransientErrors :
            send_payload(res) => /\ writerPc' = "recv"
                                 /\ send_channel' = send_channel
                                 /\ rxAlive' = rxAlive

\* C28: under a fairly scheduled writer every payload submitted to the
\* outbound channel is eventually passed to transport.send, unless the writer
\* stopped on an error that is not transient; after a transient failure
\* (timed-out, interrupted, encode-error) the writer is back at recv with the
\* queue as it was.
C28_SubmittedIsEventuallySent ==
    /\ \A i \in 1..MaxOps : (Len(submitted) >= i) ~> (Stopped \/ Passed(i))
    /\ [][TransientStep]_vars

\* the transport failed the first payload with a transient error and was
\* then given the second one
C28_Witness ==
    /\ Len(transportLog) = 2
    /\ ~transportLog[1].ok
    /\ Passed(1)
    /\ Passed(2)
    /\ ~Stopped
====
